---------------------------- MODULE Spec2Model ----------------------------
(***************************************************************************)
(* A model of gorm_soft_delete.go: the DeletedAt wrapper (Scan, Value,     *)
(* MarshalJSON, UnmarshalJSON), the zero-value tag policy, and the three   *)
(* statement modifiers (query, update, delete) acting on a gorm.Statement. *)
(* The gorm and standard-library calls the file makes (AddClause, And,     *)
(* Where.Build, SetColumn, json.Marshal of a time.Time, ...) are modelled  *)
(* by what those calls do to the values the file hands them.               *)
(***************************************************************************)
EXTENDS Integers, Sequences, FiniteSets, TLC

(***************************************************************************)
(* Bounds of the model.                                                    *)
(***************************************************************************)
\* longest user filter (number of top-level expressions of the WHERE clause)
MaxExprs == 2
\* largest primary-key value of a record (0 is the zero value: no identity)
MaxKey == 2
\* last reading of the host clock
MaxClock == 2

\* the rewrites run on each of two statements side by side
MaxOps == 2

(***************************************************************************)
(* clause expressions, as the file builds and inspects them                *)
(***************************************************************************)
\* clause.Expr: a raw SQL condition, SQL being its text as a token sequence
Expr(sql) == [kind |-> "Expr", SQL |-> sql]

OrConditions(exprs) == [kind |-> "OrConditions", Exprs |-> exprs]

AndConditions(exprs) == [kind |-> "AndConditions", Exprs |-> exprs]

\* clause.And(exprs...): a single expression that is not an OrConditions is
\* returned as it is; anything else becomes an AndConditions group.
And(exprs) ==
  IF Len(exprs) = 1 /\ exprs[1].kind # "OrConditions"
  THEN exprs[1]
  ELSE AndConditions(exprs)

\* clause.Column{Table: clause.CurrentTable, Name: name}
CurrentTable == "~~~ct~~~"

Column(table, name) == [Table |-> table, Name |-> name]

Eq(column, value) == [kind |-> "Eq", Column |-> column, Value |-> value]

ClauseIN(column, values) == [kind |-> "IN", Column |-> column, Values |-> values]

Assignment(column, value) == [Column |-> column, Value |-> value]

\* sql.NullString{String, Valid} and what its Value() hands the driver: the
\* string when Valid, NULL otherwise (clause.Eq then renders IS NULL)
NullString(str, valid) == [String |-> str, Valid |-> valid]

NULL == "NULL"

NullStringValue(ns) == IF ns.Valid THEN ns.String ELSE NULL

(***************************************************************************)
(* How the host renders a WHERE clause (clause.Where.Build, buildExprs):   *)
(* the text is a token sequence; AND binds tighter than OR.                *)
(***************************************************************************)
HasAndOr(sql) == \E i \in 1..Len(sql) : sql[i] \in {"AND", "OR"}

\* buildExprs' wrapInParentheses for one element of a list of several
WrapInParentheses(exprs, idx) ==
  LET e == exprs[idx] IN
  /\ Len(exprs) > 1
  /\ CASE e.kind = "Expr" -> HasAndOr(e.SQL)
       [] e.kind \in {"OrConditions", "AndConditions"} ->
            /\ Len(e.Exprs) = 1
            /\ e.Exprs[1].kind = "Expr"
            /\ HasAndOr(e.Exprs[1].SQL)
       [] OTHER -> FALSE

IsSingleOr(e) == e.kind = "OrConditions" /\ Len(e.Exprs) = 1

RECURSIVE BuildExpression(_)
RECURSIVE buildExprs(_, _, _)

\* Expression.Build of each kind of expression
BuildExpression(e) ==
  CASE e.kind = "Expr" -> e.SQL
    [] e.kind = "OrConditions" ->
         IF Len(e.Exprs) > 1
         THEN <<"(">> \o buildExprs(e.Exprs, "OR", 1) \o <<")">>
         ELSE buildExprs(e.Exprs, "OR", 1)
    [] e.kind = "AndConditions" ->
         IF Len(e.Exprs) > 1
         THEN <<"(">> \o buildExprs(e.Exprs, "AND", 1) \o <<")">>
         ELSE buildExprs(e.Exprs, "AND", 1)
    [] e.kind = "Eq" ->
         <<ToString(<<e.Column.Table, e.Column.Name, "=", NullStringValue(e.Value)>>)>>
    [] OTHER ->
         <<ToString(<<e.Column.Table, e.Column.Name, "IN", e.Values>>)>>

\* buildExprs(exprs, builder, joinCond), from element idx on
buildExprs(exprs, joinCond, idx) ==
  IF idx > Len(exprs) THEN <<>>
  ELSE
    LET e == exprs[idx]
        join == IF idx = 1 THEN <<>>
                ELSE IF IsSingleOr(e) THEN <<"OR">> ELSE <<joinCond>>
        body == IF WrapInParentheses(exprs, idx)
                THEN <<"(">> \o BuildExpression(e) \o <<")">>
                ELSE BuildExpression(e)
    IN join \o body \o buildExprs(exprs, joinCond, idx + 1)

\* the first position that is not a single-element OrConditions, 0 if none
FirstNotSingleOr(exprs) ==
  IF \E i \in 1..Len(exprs) : ~IsSingleOr(exprs[i])
  THEN CHOOSE i \in 1..Len(exprs) :
         /\ ~IsSingleOr(exprs[i])
         /\ \A j \in 1..(i - 1) : IsSingleOr(exprs[j])
  ELSE 0

\* clause.Where.Build: a lone AndConditions is unwrapped, a leading single
\* OR condition changes place with the first other expression, and the list
\* is joined with AND.
WhereBuild(exprs) ==
  LET unwrapped == IF Len(exprs) = 1 /\ exprs[1].kind = "AndConditions"
                   THEN exprs[1].Exprs ELSE exprs
      p == FirstNotSingleOr(unwrapped)
      switched == IF p > 1
                  THEN [unwrapped EXCEPT ![1] = unwrapped[p], ![p] = unwrapped[1]]
                  ELSE unwrapped
  IN buildExprs(switched, "AND", 1)

(***************************************************************************)
(* The meaning of a rendered filter under a truth assignment A to its      *)
(* conditions: SQL's precedence, parentheses first, then AND, then OR.     *)
(***************************************************************************)
Punctuation == {"(", ")", "AND", "OR"}

Conditions(toks) == {toks[i] : i \in 1..Len(toks)} \ Punctuation

RECURSIVE ParseOr(_, _, _)
RECURSIVE ParseAnd(_, _, _)
RECURSIVE ParsePrimary(_, _, _)
RECURSIVE OrTail(_, _, _)
RECURSIVE AndTail(_, _, _)

ParsePrimary(toks, i, A) ==
  IF toks[i] = "("
  THEN LET r == ParseOr(toks, i + 1, A) IN [v |-> r.v, i |-> r.i + 1]
  ELSE [v |-> A[toks[i]], i |-> i + 1]

AndTail(toks, acc, A) ==
  IF acc.i <= Len(toks) /\ toks[acc.i] = "AND"
  THEN LET r == ParsePrimary(toks, acc.i + 1, A)
       IN AndTail(toks, [v |-> (acc.v /\ r.v), i |-> r.i], A)
  ELSE acc

ParseAnd(toks, i, A) == AndTail(toks, ParsePrimary(toks, i, A), A)

OrTail(toks, acc, A) ==
  IF acc.i <= Len(toks) /\ toks[acc.i] = "OR"
  THEN LET r == ParseAnd(toks, acc.i + 1, A)
       IN OrTail(toks, [v |-> (acc.v \/ r.v), i |-> r.i], A)
  ELSE acc

ParseOr(toks, i, A) == OrTail(toks, ParseAnd(toks, i, A), A)

\* the truth value of the rendered filter; an absent filter matches every row
Holds(toks, A) == IF toks = <<>> THEN TRUE ELSE ParseOr(toks, 1, A).v

(***************************************************************************)
(* Field configuration: the tags of the soft-delete field                  *)
(***************************************************************************)
\* the strings jinzhu/now's Parse accepts, among the tags the model draws
ParseableDates == {"2000-01-01", "2000-01-01 10:20"}

NowParseOk(v) == v \in ParseableDates

\* f.Schema.LookUpField(name): the sibling field of that name, none if the
\* schema has no such field
LookUpField(name) ==
  IF name = "DeletedBy" THEN <<[Name |-> "DeletedBy", DBName |-> "deleted_by"]>>
  ELSE <<>>

\* a bug to compare with: the tag is taken without asking whether it parses
parseZeroValueTagUnchecked(f) ==
  IF f.TagSettings.ZEROVALUE # <<>>
  THEN NullString(f.TagSettings.ZEROVALUE[1], TRUE)
  ELSE NullString("", FALSE)

parseZeroValueTag(f) ==
  IF f.TagSettings.ZEROVALUE # <<>> /\ NowParseOk(f.TagSettings.ZEROVALUE[1])
  THEN NullString(f.TagSettings.ZEROVALUE[1], TRUE)
  ELSE NullString("", FALSE)

\* DeletedAt.QueryClauses / UpdateClauses / DeleteClauses build the same
\* three fields; the clause types differ only in their ModifyStatement.
QueryClauses(f) ==
  << [Field      |-> f,
      ZeroValue  |-> parseZeroValueTag(f),
      ActorField |-> IF Len(f.TagSettings.ACTORFIELD) >= 1
                     THEN LookUpField(f.TagSettings.ACTORFIELD[1])
                     ELSE <<>>] >>

UpdateClauses(f) == QueryClauses(f)

DeleteClauses(f) == QueryClauses(f)

(***************************************************************************)
(* The host statement (gorm.Statement), as far as the modifiers touch it   *)
(***************************************************************************)
\* a clause.Clause: Expression is <<>> (nil) or <<the expression>>
Clause(name, expression) == [Name |-> name, Expression |-> expression]

Where(exprs) == [kind |-> "Where", Exprs |-> exprs]

HasClause(stmt, name) == name \in DOMAIN stmt.Clauses

PutClause(stmt, name, c) ==
  [stmt EXCEPT !.Clauses =
     [n \in (DOMAIN stmt.Clauses) \cup {name} |->
        IF n = name THEN c ELSE stmt.Clauses[n]]]

\* stmt.AddClause(clause.Where{...}): Where.MergeClause appends the new
\* expressions to those of an existing WHERE clause
AddClauseWhere(stmt, exprs) ==
  LET old == IF HasClause(stmt, "WHERE") /\ stmt.Clauses["WHERE"].Expression # <<>>
             THEN stmt.Clauses["WHERE"].Expression[1].Exprs
             ELSE <<>>
  IN PutClause(stmt, "WHERE", Clause("WHERE", <<Where(old \o exprs)>>))

\* stmt.AddClause(clause.Set{...}): Set.MergeClause replaces the assignments
AddClauseSet(stmt, set) ==
  PutClause(stmt, "SET", Clause("SET", <<[kind |-> "Set", Assignments |-> set]>>))

\* stmt.AddClauseIfNotExists(clause.Update{})
AddClauseIfNotExistsUpdate(stmt) ==
  IF ~HasClause(stmt, "UPDATE") \/ stmt.Clauses["UPDATE"].Expression = <<>>
  THEN PutClause(stmt, "UPDATE", Clause("UPDATE", <<[kind |-> "Update"]>>))
  ELSE stmt

\* stmt.SetColumn(name, value, true): sets the field on the in-memory record;
\* without a schema, or on a struct that is not addressable, it records an
\* error and sets nothing
SetColumn(stmt, name, value) ==
  IF stmt.Schema = <<>>
  THEN [stmt EXCEPT !.Error = @ \cup {"ErrInvalidField"}]
  ELSE IF stmt.ReflectValue.Kind = "Struct" /\ ~stmt.ReflectValue.CanAddr
  THEN [stmt EXCEPT !.Error = @ \cup {"ErrInvalidValue"}]
  ELSE [stmt EXCEPT !.Record =
          [n \in (DOMAIN stmt.Record) \cup {name} |->
             IF n = name THEN value ELSE stmt.Record[n]]]

\* the clauses of the update-execution path, in the order they are rendered
UpdateClauseNames == <<"UPDATE", "SET", "WHERE">>

ClauseBuild(c) ==
  IF c.Expression = <<>> THEN <<>>
  ELSE LET e == c.Expression[1] IN
       <<c.Name>> \o
       (CASE e.kind = "Where" -> WhereBuild(e.Exprs)
          [] e.kind = "Set" -> [i \in 1..Len(e.Assignments) |-> ToString(e.Assignments[i])]
          [] OTHER -> <<CurrentTable>>)

RECURSIVE BuildFrom(_, _, _)
BuildFrom(stmt, names, i) ==
  IF i > Len(names) THEN <<>>
  ELSE (IF HasClause(stmt, names[i]) THEN ClauseBuild(stmt.Clauses[names[i]]) ELSE <<>>)
       \o BuildFrom(stmt, names, i + 1)

\* stmt.Build(clauses...): renders the named clauses into stmt.SQL
Build(stmt, names) == [stmt EXCEPT !.SQL = @ \o BuildFrom(stmt, names, 1)]

\* schema.GetIdentityFieldValuesMap followed by schema.ToQueryValues, for a
\* single primary key: the non-zero keys of the records, each once, in order
RECURSIVE IdentityValues(_, _)
IdentityValues(elems, i) ==
  IF i > Len(elems) THEN <<>>
  ELSE IF elems[i] = 0 \/ \E j \in 1..(i - 1) : elems[j] = elems[i]
  THEN IdentityValues(elems, i + 1)
  ELSE <<elems[i]>> \o IdentityValues(elems, i + 1)

ToQueryValues(stmt, elems) ==
  [column |-> Column(stmt.Table, stmt.Schema[1].PrimaryFieldDBNames[1]),
   values |-> IdentityValues(elems, 1)]

(***************************************************************************)
(* The three statement modifiers                                           *)
(***************************************************************************)
\* the context key under which the caller stores who deletes
GORM_CTX_DELETED_BY == "gorm:deleted_by"

ContextValue(stmt, key) ==
  IF key \in DOMAIN stmt.Context THEN <<stmt.Context[key]>> ELSE <<>>

WhereExprs(stmt) ==
  IF HasClause(stmt, "WHERE") /\ stmt.Clauses["WHERE"].Expression # <<>>
  THEN stmt.Clauses["WHERE"].Expression[1].Exprs
  ELSE <<>>

\* a bug to compare with: the AND group takes the expressions last to first
WrapOrConditionsReversed(stmt) ==
  IF /\ HasClause(stmt, "WHERE")
     /\ stmt.Clauses["WHERE"].Expression # <<>>
     /\ stmt.Clauses["WHERE"].Expression[1].kind = "Where"
     /\ Len(WhereExprs(stmt)) >= 1
     /\ \E i \in 1..Len(WhereExprs(stmt)) : IsSingleOr(WhereExprs(stmt)[i])
  THEN LET e == WhereExprs(stmt) IN
       PutClause(stmt, "WHERE",
         [stmt.Clauses["WHERE"] EXCEPT
            !.Expression = <<Where(<<And([i \in 1..Len(e) |-> e[Len(e) + 1 - i]])>>)>>])
  ELSE stmt

\* a bug to compare with: only the first expression is tested
WrapOrConditionsFirstOnly(stmt) ==
  IF /\ HasClause(stmt, "WHERE")
     /\ stmt.Clauses["WHERE"].Expression # <<>>
     /\ stmt.Clauses["WHERE"].Expression[1].kind = "Where"
     /\ Len(WhereExprs(stmt)) >= 1
     /\ IsSingleOr(WhereExprs(stmt)[1])
  THEN PutClause(stmt, "WHERE",
         [stmt.Clauses["WHERE"] EXCEPT
            !.Expression = <<Where(<<And(WhereExprs(stmt))>>)>>])
  ELSE stmt

\* lines 89-100: an existing WHERE with a single-element OR condition among
\* its top-level expressions is replaced by one AND group of all of them
WrapOrConditions(stmt) ==
  IF /\ HasClause(stmt, "WHERE")
     /\ stmt.Clauses["WHERE"].Expression # <<>>
     /\ stmt.Clauses["WHERE"].Expression[1].kind = "Where"
     /\ Len(WhereExprs(stmt)) >= 1
     /\ \E i \in 1..Len(WhereExprs(stmt)) : IsSingleOr(WhereExprs(stmt)[i])
  THEN PutClause(stmt, "WHERE",
         [stmt.Clauses["WHERE"] EXCEPT
            !.Expression = <<Where(<<And(WhereExprs(stmt))>>)>>])
  ELSE stmt

\* a bug to compare with: the idempotency marker is never set
QueryModifyStatementNoMarker(sd, stmt) ==
  IF ~HasClause(stmt, "soft_delete_enabled") /\ ~stmt.Unscoped
  THEN AddClauseWhere(WrapOrConditions(stmt),
         <<Eq(Column(CurrentTable, sd.Field.DBName), sd.ZeroValue)>>)
  ELSE stmt

\* SoftDeleteQueryClause.ModifyStatement
QueryModifyStatement(sd, stmt) ==
  IF ~HasClause(stmt, "soft_delete_enabled") /\ ~stmt.Unscoped
  THEN LET wrapped == WrapOrConditions(stmt)
           added == AddClauseWhere(wrapped,
                      <<Eq(Column(CurrentTable, sd.Field.DBName), sd.ZeroValue)>>)
       IN PutClause(added, "soft_delete_enabled", Clause("", <<>>))
  ELSE stmt

\* a bug to compare with: the update rewrite does not look at the rendered SQL
UpdateModifyStatementNoSQLGuard(sd, stmt) ==
  IF ~stmt.Unscoped
  THEN QueryModifyStatement(sd, stmt)
  ELSE stmt

\* SoftDeleteUpdateClause.ModifyStatement
UpdateModifyStatement(sd, stmt) ==
  IF Len(stmt.SQL) = 0 /\ ~stmt.Unscoped
  THEN QueryModifyStatement(sd, stmt)
  ELSE stmt

\* a bug to compare with: the actor is looked up under another key
ActorNameOtherKey(sd, stmt) ==
  IF sd.ActorField # <<>>
  THEN ContextValue(stmt, "request_id")
  ELSE <<>>

\* lines 182-187: the actor found in the context, <<>> if there is none or
\* no actor field is configured
ActorName(sd, stmt) ==
  IF sd.ActorField # <<>>
  THEN ContextValue(stmt, GORM_CTX_DELETED_BY)
  ELSE <<>>

\* a bug to compare with: the clock is read again for the in-memory record
AddAssignmentsSecondReading(sd, stmt, curTime) ==
  LET actorName == ActorName(sd, stmt)
      clauseSet == <<Assignment(Column("", sd.Field.DBName), curTime)>> \o
                   (IF actorName # <<>>
                    THEN <<Assignment(Column("", sd.ActorField[1].DBName), actorName[1])>>
                    ELSE <<>>)
      marked == IF actorName # <<>>
                THEN SetColumn(stmt, sd.ActorField[1].DBName, actorName[1])
                ELSE stmt
  IN SetColumn(AddClauseSet(marked, clauseSet), sd.Field.DBName, curTime + 1)

\* lines 178-190: the assignment set, and both columns set on the record
AddAssignments(sd, stmt, curTime) ==
  LET actorName == ActorName(sd, stmt)
      clauseSet == <<Assignment(Column("", sd.Field.DBName), curTime)>> \o
                   (IF actorName # <<>>
                    THEN <<Assignment(Column("", sd.ActorField[1].DBName), actorName[1])>>
                    ELSE <<>>)
      marked == IF actorName # <<>>
                THEN SetColumn(stmt, sd.ActorField[1].DBName, actorName[1])
                ELSE stmt
  IN SetColumn(AddClauseSet(marked, clauseSet), sd.Field.DBName, curTime)

\* a bug to compare with: a single key is not worth an IN
AddPrimaryKeyINSeveral(stmt, elems) ==
  LET q == ToQueryValues(stmt, elems) IN
  IF Len(q.values) > 1
  THEN AddClauseWhere(stmt, <<ClauseIN(q.column, q.values)>>)
  ELSE stmt

\* a bug to compare with: an IN is added even when there are no keys
AddPrimaryKeyINAlways(stmt, elems) ==
  LET q == ToQueryValues(stmt, elems) IN
  AddClauseWhere(stmt, <<ClauseIN(q.column, q.values)>>)

\* lines 193-198 and 201-206: an IN over the primary keys, if there are any
AddPrimaryKeyIN(stmt, elems) ==
  LET q == ToQueryValues(stmt, elems) IN
  IF Len(q.values) > 0
  THEN AddClauseWhere(stmt, <<ClauseIN(q.column, q.values)>>)
  ELSE stmt

\* a bug to compare with: the model's keys are never looked at
AddPrimaryKeysOwnOnly(stmt) ==
  IF stmt.Schema # <<>>
  THEN AddPrimaryKeyIN(stmt, stmt.ReflectValue.Elems)
  ELSE stmt

\* lines 192-208
AddPrimaryKeys(stmt) ==
  IF stmt.Schema # <<>>
  THEN LET own == AddPrimaryKeyIN(stmt, stmt.ReflectValue.Elems) IN
       IF /\ stmt.ReflectValue.CanAddr
          /\ stmt.Model # <<>>
          /\ stmt.Model[1].ptr # stmt.Dest
       THEN AddPrimaryKeyIN(own, stmt.Model[1].Elems)
       ELSE own
  ELSE stmt

\* a bug to compare with: the delete rewrite forgets the unscoped flag
DeleteModifyStatementUnscoped(sd, stmt, curTime) ==
  IF Len(stmt.SQL) = 0
  THEN LET assigned == AddAssignments(sd, stmt, curTime)
           scoped == AddPrimaryKeys(assigned)
           excluded == QueryModifyStatement(sd, scoped)
       IN Build(AddClauseIfNotExistsUpdate(excluded), UpdateClauseNames)
  ELSE stmt

\* a bug to compare with: the rewritten statement is never rendered
DeleteModifyStatementNoBuild(sd, stmt, curTime) ==
  IF Len(stmt.SQL) = 0 /\ ~stmt.Unscoped
  THEN LET assigned == AddAssignments(sd, stmt, curTime)
           scoped == AddPrimaryKeys(assigned)
           excluded == QueryModifyStatement(sd, scoped)
       IN AddClauseIfNotExistsUpdate(excluded)
  ELSE stmt

\* a bug to compare with: the delete rewrite does not look at the rendered SQL
DeleteModifyStatementNoSQLGuard(sd, stmt, curTime) ==
  IF ~stmt.Unscoped
  THEN LET assigned == AddAssignments(sd, stmt, curTime)
           scoped == AddPrimaryKeys(assigned)
           excluded == QueryModifyStatement(sd, scoped)
       IN Build(AddClauseIfNotExistsUpdate(excluded), UpdateClauseNames)
  ELSE stmt

\* a bug to compare with: the statement is rendered before the exclusion is
\* injected
DeleteModifyStatementBuildFirst(sd, stmt, curTime) ==
  IF Len(stmt.SQL) = 0 /\ ~stmt.Unscoped
  THEN LET assigned == AddAssignments(sd, stmt, curTime)
           scoped == AddPrimaryKeys(assigned)
           built == Build(AddClauseIfNotExistsUpdate(scoped), UpdateClauseNames)
       IN QueryModifyStatement(sd, built)
  ELSE stmt

\* a bug to compare with: the delete rewrite injects the exclusion without
\* looking at the marker the query and update rewrites set
DeleteModifyStatementOwnInjection(sd, stmt, curTime) ==
  IF Len(stmt.SQL) = 0 /\ ~stmt.Unscoped
  THEN LET assigned == AddAssignments(sd, stmt, curTime)
           scoped == AddPrimaryKeys(assigned)
           excluded == QueryModifyStatementNoMarker(sd,
                         [scoped EXCEPT !.Clauses =
                            [c \in DOMAIN @ \ {"soft_delete_enabled"} |-> @[c]]])
           marked == PutClause(excluded, "soft_delete_enabled", Clause("", <<>>))
       IN Build(AddClauseIfNotExistsUpdate(marked), UpdateClauseNames)
  ELSE stmt

\* SoftDeleteDeleteClause.ModifyStatement; curTime is what stmt.DB.NowFunc()
\* returned
DeleteModifyStatement(sd, stmt, curTime) ==
  IF Len(stmt.SQL) = 0 /\ ~stmt.Unscoped
  THEN LET assigned == AddAssignments(sd, stmt, curTime)
           scoped == AddPrimaryKeys(assigned)
           excluded == QueryModifyStatement(sd, scoped)
       IN Build(AddClauseIfNotExistsUpdate(excluded), UpdateClauseNames)
  ELSE stmt

(***************************************************************************)
(* DeletedAt (sql.NullTime): Time and Valid                                *)
(***************************************************************************)
\* a time.Time: the instant (its year stands for it) and whether it carries
\* a monotonic clock reading, which no text or storage form keeps
Time(year, mono) == [Year |-> year, Mono |-> mono]

\* time.Time{}
ZeroTime == Time(1, FALSE)

DeletedAt(time, valid) == [Time |-> time, Valid |-> valid]

\* time.Time.Equal: the same instant
TimeEqual(t, u) == t.Year = u.Year

YearsModelled == {1, 2000, 9999, 10000}

\* json.Marshal(time.Time): the quoted RFC 3339 text; an error for a year
\* outside 0..9999
JSONMarshalTime(t) ==
  IF t.Year < 0 \/ t.Year > 9999
  THEN [bytes |-> <<>>, err |-> <<"Time.MarshalJSON: year outside of range [0,9999]">>]
  ELSE [bytes |-> <<"\"", ToString(t.Year), "\"">>, err |-> <<>>]

\* json.Marshal(nil)
JSONMarshalNil == [bytes |-> <<"null">>, err |-> <<>>]

IsJSONString(b) == Len(b) = 3 /\ b[1] = "\"" /\ b[3] = "\""

IsTimeText(b) == IsJSONString(b) /\ \E y \in YearsModelled : ToString(y) = b[2]

\* json.Unmarshal(b, &t): text that is not JSON leaves t alone; a JSON string
\* is handed to time.Time.UnmarshalJSON, which assigns the result of the
\* parse to t, the zero time when the parse fails
JSONUnmarshalTime(b, t) ==
  IF ~IsJSONString(b)
  THEN [time |-> t, err |-> <<"invalid character">>]
  ELSE IF IsTimeText(b)
  THEN [time |-> Time(CHOOSE y \in YearsModelled : ToString(y) = b[2], FALSE),
        err |-> <<>>]
  ELSE [time |-> ZeroTime, err |-> <<"parsing time">>]

\* a bug to compare with: the zero value is encoded for every wrapper
ValueAlwaysNil(n) == [value |-> <<>>, err |-> <<>>]

\* DeletedAt.Value
Value(n) ==
  IF ~n.Valid
  THEN [value |-> <<>>, err |-> <<>>]
  ELSE [value |-> <<n.Time>>, err |-> <<>>]

\* a bug to compare with: the test of Valid is inverted
MarshalJSONInverted(n) ==
  IF ~n.Valid THEN JSONMarshalTime(n.Time) ELSE JSONMarshalNil

\* DeletedAt.MarshalJSON
MarshalJSON(n) ==
  IF n.Valid THEN JSONMarshalTime(n.Time) ELSE JSONMarshalNil

\* DeletedAt.UnmarshalJSON: the wrapper after the call, and the error
UnmarshalJSON(n, b) ==
  IF b = <<"null">>
  THEN [n |-> [n EXCEPT !.Valid = FALSE], err |-> <<>>]
  ELSE LET r == JSONUnmarshalTime(b, n.Time) IN
       [n   |-> [Time |-> r.time, Valid |-> IF r.err = <<>> THEN TRUE ELSE n.Valid],
        err |-> r.err]

\* DeletedAt.Scan (sql.NullTime.Scan): nil resets the wrapper; any other
\* value sets Valid before it is converted, and a value that is no time
\* leaves Time alone and returns the error
Scan(n, value) ==
  IF value = <<>>
  THEN [n |-> DeletedAt(ZeroTime, FALSE), err |-> <<>>]
  ELSE IF value[1].ok
  THEN [n |-> DeletedAt(value[1].time, TRUE), err |-> <<>>]
  ELSE [n |-> [n EXCEPT !.Valid = TRUE], err |-> <<"unsupported Scan">>]

(***************************************************************************)
(* State                                                                   *)
(***************************************************************************)
VARIABLES
  field,    \* the schema field the soft-delete clauses are built from
  stmt,     \* the statement the host hands to the modifiers
  stmt0,    \* the statement as the host first built it
  pre,      \* the statement before the last modifier ran
  calls,    \* the last two modifiers that ran, oldest first
  nowFunc,  \* what stmt.DB.NowFunc() returned when it was last called
  pair,     \* two statements of one session, rewritten in any interleaving
  n,        \* a DeletedAt value
  out       \* the last DeletedAt operation: its receiver, input and results

vars == <<field, stmt, stmt0, pre, calls, nowFunc, pair, n, out>>

stmtVars == <<field, stmt, stmt0, pre, calls, nowFunc, pair>>

jsonVars == <<n, out>>

(***************************************************************************)
(* Inputs                                                                  *)
(***************************************************************************)
CondA == Expr(<<"a">>)

CondB == Expr(<<"b">>)

CondC == Expr(<<"c">>)

\* db.Where("a OR c"): one raw condition whose text holds an OR
CondRaw == Expr(<<"a", "OR", "c">>)

EmptyMap == [x \in {} |-> x]

ZeroTags == {<<>>, <<"2000-01-01">>, <<"not-a-date">>}

ActorTags == {<<>>, <<"DeletedBy">>, <<"NoSuchField">>}

Field(zero, actor) ==
  [Name |-> "DeletedAt", DBName |-> "deleted_at",
   TagSettings |-> [ZEROVALUE |-> zero, ACTORFIELD |-> actor]]

Contexts ==
  { EmptyMap,
    [k \in {GORM_CTX_DELETED_BY} |-> "alice"],
    [k \in {GORM_CTX_DELETED_BY, "request_id"} |-> IF k = "request_id" THEN "r1" ELSE "bob"],
    [k \in {"request_id"} |-> "r1"] }


Keys == 0..MaxKey

\* one record, addressable or passed by value, or a slice of two records
ReflectValues ==
  { [Kind |-> "Struct", CanAddr |-> c, Elems |-> <<k>>] : c \in BOOLEAN, k \in Keys }
  \cup
  { [Kind |-> "Slice", CanAddr |-> TRUE, Elems |-> e] : e \in [1..2 -> Keys] }

\* stmt.Model: nil, the destination itself, or another record
Models(rv) ==
  { <<>>, <<[ptr |-> "dest", Elems |-> rv.Elems]>> }
  \cup { <<[ptr |-> "model", Elems |-> <<k>>]>> : k \in {0, MaxKey} }

Schemas == { <<>>, <<[Table |-> "users", PrimaryFieldDBNames |-> <<"id">>]>> }

\* the user's WHERE clause: none, or these top-level expressions
SeqsUpTo(S, k) == UNION { [1..m -> S] : m \in 1..k }

Statement(unscoped, sql, filter, schema, rv, model, ctx) ==
  [Unscoped     |-> unscoped,
   SQL          |-> sql,
   Clauses      |-> IF filter = <<>> THEN EmptyMap
                    ELSE [c \in {"WHERE"} |-> Clause("WHERE", <<Where(filter)>>)],
   Table        |-> "users",
   Schema       |-> schema,
   ReflectValue |-> rv,
   Dest         |-> "dest",
   Model        |-> model,
   Context      |-> ctx,
   Record       |-> EmptyMap,
   Error        |-> {}]

RawSQLs == { <<>>, <<"SELECT", "1">> }

DefaultReflectValue == [Kind |-> "Struct", CanAddr |-> TRUE, Elems |-> <<1>>]

DefaultStatement ==
  Statement(FALSE, <<>>, <<>>, <<[Table |-> "users", PrimaryFieldDBNames |-> <<"id">>]>>,
            DefaultReflectValue, <<>>, EmptyMap)

\* times read from storage or text, and one read from the running clock
Times == { Time(y, FALSE) : y \in YearsModelled } \cup { Time(2000, TRUE) }

Wrappers == { DeletedAt(t, v) : t \in Times, v \in BOOLEAN }

\* what a driver hands to Scan: NULL, a time, or a value that is no time
ScanValues ==
  { <<>> } \cup { <<[ok |-> TRUE, time |-> t]>> : t \in Times }
  \cup { <<[ok |-> FALSE, time |-> ZeroTime]>> }

\* the texts handed to UnmarshalJSON: null, times, a string that is no time,
\* and text that is not JSON
JSONTexts ==
  { <<"null">>, <<"\"", "not a time", "\"">>, <<"{">> }
  \cup { <<"\"", ToString(y), "\"">> : y \in YearsModelled \ {10000} }

NoOut ==
  [op |-> "none", x |-> DeletedAt(ZeroTime, FALSE), bytes |-> <<>>, value |-> <<>>,
   y |-> DeletedAt(ZeroTime, FALSE), err |-> <<>>, merr |-> <<>>]

(***************************************************************************)
(* Initial states                                                          *)
(***************************************************************************)
WhereSamples == { <<>>, <<CondA>>, <<CondA, OrConditions(<<CondB>>)>> }

InitIdleJSON == n = DeletedAt(ZeroTime, FALSE) /\ out = NoOut

StatementIds == {"A", "B"}

\* two statements, what they were when built, the rewrites each has had,
\* the statement rewritten last, and both as they were before that rewrite
Pair(stmts) ==
  [stmts |-> stmts, init |-> stmts, log |-> [id \in StatementIds |-> <<>>],
   last |-> "none", prev |-> stmts]

InitIdlePair == pair = Pair([id \in StatementIds |-> DefaultStatement])

\* delete-centred inputs. Which keys the rewrite scopes by depends on the
\* record, the model and the schema; whether it assigns an actor depends on
\* the context and the actor tag. Each group is drawn in full beside a
\* fixed choice of the other, with every flag, filter sample and schema.
InitRecords ==
  /\ field = Field(<<>>, <<"DeletedBy">>)
  /\ \E u \in BOOLEAN, sql \in RawSQLs, f \in WhereSamples, sc \in Schemas,
        rv \in ReflectValues :
       \E m \in Models(rv) :
         stmt = Statement(u, sql, f, sc, rv, m, [k \in {GORM_CTX_DELETED_BY} |-> "alice"])

InitActors ==
  /\ field \in { Field(<<>>, a) : a \in ActorTags }
  /\ \E u \in BOOLEAN, sql \in RawSQLs, f \in WhereSamples, sc \in Schemas,
        ctx \in Contexts :
       stmt = Statement(u, sql, f, sc, DefaultReflectValue, <<>>, ctx)

Init ==
  /\ InitRecords \/ InitActors
  /\ stmt0 = stmt
  /\ pre = stmt
  /\ calls = <<>>
  /\ nowFunc = 0
  /\ InitIdlePair
  /\ InitIdleJSON

FilterItems ==
  { CondA, CondB, CondRaw, OrConditions(<<CondA>>), OrConditions(<<CondB>>),
    OrConditions(<<CondB, CondC>>) }

\* filter-centred inputs: every user filter up to MaxExprs, every zero tag
InitFilter ==
  /\ field \in { Field(z, <<>>) : z \in ZeroTags }
  /\ \E u \in BOOLEAN, sql \in RawSQLs, f \in {<<>>} \cup SeqsUpTo(FilterItems, MaxExprs) :
       stmt = [DefaultStatement EXCEPT
                 !.Unscoped = u, !.SQL = sql,
                 !.Clauses = IF f = <<>> THEN EmptyMap
                             ELSE [c \in {"WHERE"} |-> Clause("WHERE", <<Where(f)>>)]]
  /\ stmt0 = stmt
  /\ pre = stmt
  /\ calls = <<>>
  /\ nowFunc = 0
  /\ InitIdlePair
  /\ InitIdleJSON

\* statements built apart, scoped or not, with and without a filter
PairSamples ==
  { Statement(u, <<>>, f, DefaultStatement.Schema, DefaultReflectValue, <<>>,
              [k \in {GORM_CTX_DELETED_BY} |-> "alice"]) :
      u \in BOOLEAN, f \in {<<>>, <<CondA, OrConditions(<<CondB>>)>>} }

InitPair ==
  /\ field = Field(<<>>, <<"DeletedBy">>)
  /\ stmt = DefaultStatement
  /\ stmt0 = stmt
  /\ pre = stmt
  /\ calls = <<>>
  /\ nowFunc = 0
  /\ pair \in { Pair(ss) : ss \in [StatementIds -> PairSamples] }
  /\ InitIdleJSON

InitJSON ==
  /\ field = Field(<<>>, <<>>)
  /\ stmt = DefaultStatement
  /\ stmt0 = stmt
  /\ pre = stmt
  /\ calls = <<>>
  /\ nowFunc = 0
  /\ InitIdlePair
  /\ n \in Wrappers
  /\ out = NoOut

(***************************************************************************)
(* Actions: the host runs a modifier on the statement                      *)
(***************************************************************************)
LastTwo(s) == IF Len(s) > 2 THEN SubSeq(s, Len(s) - 1, Len(s)) ELSE s

Ran(op) ==
  /\ pre' = stmt
  /\ calls' = LastTwo(Append(calls, op))
  /\ UNCHANGED <<field, stmt0, pair, n, out>>

\* a query runs the field's QueryClauses
Query ==
  /\ stmt' = QueryModifyStatement(QueryClauses(field)[1], stmt)
  /\ UNCHANGED nowFunc
  /\ Ran("query")

\* an update runs the field's UpdateClauses
Update ==
  /\ stmt' = UpdateModifyStatement(UpdateClauses(field)[1], stmt)
  /\ UNCHANGED nowFunc
  /\ Ran("update")

\* a delete runs the field's DeleteClauses; t is the host clock's reading
Delete ==
  \E t \in 1..MaxClock :
    /\ stmt' = DeleteModifyStatement(DeleteClauses(field)[1], stmt, t)
    /\ nowFunc' = IF Len(stmt.SQL) = 0 /\ ~stmt.Unscoped THEN t ELSE nowFunc
    /\ Ran("delete")

Next == Query \/ Update \/ Delete

Spec == Init /\ [][Next]_vars

SpecFilter == InitFilter /\ [][Next]_vars

(***************************************************************************)
(* Actions: the host runs modifiers on two statements, in any interleaving *)
(***************************************************************************)
\* a bug to compare with: one clause collection behind every statement
RewrittenSharedClauses(stmts, id, new) ==
  [i \in DOMAIN stmts |->
     IF i = id THEN new ELSE [stmts[i] EXCEPT !.Clauses = new.Clauses]]

\* a modifier is handed one statement, stmt *gorm.Statement, and what it
\* returns replaces that statement alone
Rewritten(stmts, id, new) == [stmts EXCEPT ![id] = new]

\* one rewrite of the log of a statement, applied to it
Applied(s, e) ==
  CASE e.op = "query" -> QueryModifyStatement(QueryClauses(field)[1], s)
    [] e.op = "update" -> UpdateModifyStatement(UpdateClauses(field)[1], s)
    [] e.op = "delete" -> DeleteModifyStatement(DeleteClauses(field)[1], s, e.t)

RanOn(id, e) ==
  /\ Len(pair.log[id]) < MaxOps
  /\ pair' = [pair EXCEPT
                !.stmts = Rewritten(@, id, Applied(pair.stmts[id], e)),
                !.log[id] = Append(@, e),
                !.last = id,
                !.prev = pair.stmts]
  /\ UNCHANGED <<field, stmt, stmt0, pre, calls, nowFunc, n, out>>

QueryOn == \E id \in StatementIds : RanOn(id, [op |-> "query", t |-> 0])

UpdateOn == \E id \in StatementIds : RanOn(id, [op |-> "update", t |-> 0])

\* the clock is read only by a delete rewrite that passes its guard
DeleteOn ==
  \E id \in StatementIds, t \in 1..MaxClock :
    RanOn(id, [op |-> "delete",
               t  |-> IF Len(pair.stmts[id].SQL) = 0 /\ ~pair.stmts[id].Unscoped
                      THEN t ELSE 0])

NextPair == QueryOn \/ UpdateOn \/ DeleteOn

SpecPair == InitPair /\ [][NextPair]_vars

(***************************************************************************)
(* Actions: DeletedAt is scanned, encoded and decoded                      *)
(***************************************************************************)
Outcome(op, x, bytes, value, y, err, merr) ==
  [op |-> op, x |-> x, bytes |-> bytes, value |-> value, y |-> y,
   err |-> err, merr |-> merr]

DoScan ==
  \E v \in ScanValues :
    LET r == Scan(n, v) IN
    /\ n' = r.n
    /\ out' = Outcome("Scan", n, <<>>, <<>>, r.n, r.err, <<>>)
    /\ UNCHANGED stmtVars

DoValue ==
  LET r == Value(n) IN
  /\ out' = Outcome("Value", n, <<>>, r.value, n, r.err, <<>>)
  /\ UNCHANGED <<n, stmtVars>>

DoMarshalJSON ==
  LET r == MarshalJSON(n) IN
  /\ out' = Outcome("MarshalJSON", n, r.bytes, <<>>, n, <<>>, r.err)
  /\ UNCHANGED <<n, stmtVars>>

DoUnmarshalJSON ==
  \E b \in JSONTexts :
    LET r == UnmarshalJSON(n, b) IN
    /\ n' = r.n
    /\ out' = Outcome("UnmarshalJSON", n, b, <<>>, r.n, r.err, <<>>)
    /\ UNCHANGED stmtVars

\* n is encoded and the text decoded into another wrapper, whatever it held
DoRoundTrip ==
  \E recv \in Wrappers :
    LET m == MarshalJSON(n)
        r == IF m.err = <<>> THEN UnmarshalJSON(recv, m.bytes)
             ELSE [n |-> recv, err |-> <<>>]
    IN /\ out' = Outcome("RoundTrip", n, m.bytes, <<>>, r.n, r.err, m.err)
       /\ UNCHANGED <<n, stmtVars>>

NextJSON == DoScan \/ DoValue \/ DoMarshalJSON \/ DoUnmarshalJSON \/ DoRoundTrip

SpecJSON == InitJSON /\ [][NextJSON]_vars

(***************************************************************************)
(* Vocabulary of the properties                                            *)
(***************************************************************************)
\* every expression of a filter, groups and their members alike
RECURSIVE Nodes(_)
Nodes(exprs) ==
  IF Len(exprs) = 0 THEN <<>>
  ELSE LET e == Head(exprs) IN
       <<e>> \o (IF e.kind \in {"AndConditions", "OrConditions"}
                 THEN Nodes(e.Exprs) ELSE <<>>)
            \o Nodes(Tail(exprs))

IsExclusion(e) == e.kind = "Eq" /\ e.Column = Column(CurrentTable, field.DBName)

\* the "not deleted" predicates of a statement's filter
ExclusionPredicates(s) == SelectSeq(Nodes(WhereExprs(s)), IsExclusion)

IsIN(e) == e.kind = "IN"

INPredicates(s) == SelectSeq(Nodes(WhereExprs(s)), IsIN)

SetAssignments(s) ==
  IF HasClause(s, "SET") /\ s.Clauses["SET"].Expression # <<>>
  THEN s.Clauses["SET"].Expression[1].Assignments
  ELSE <<>>

\* the positions of the assignments to a column
AssignmentsTo(s, name) ==
  { i \in 1..Len(SetAssignments(s)) : SetAssignments(s)[i].Column.Name = name }

ActorColumn == "deleted_by"

LastCall == IF calls = <<>> THEN "none" ELSE calls[Len(calls)]

\* the last modifier was a delete rewrite that passed its guard
DeleteRewrote == LastCall = "delete" /\ ~pre.Unscoped /\ Len(pre.SQL) = 0

\* a rendered filter that holds a disjunction
HasDisjunction(toks) == \E i \in 1..Len(toks) : toks[i] = "OR"

\* the last modifier was a query rewrite that injected the exclusion
QueryInjected ==
  /\ LastCall = "query"
  /\ ~pre.Unscoped
  /\ ~HasClause(pre, "soft_delete_enabled")

(***************************************************************************)
(* C1. A statement with Unscoped set keeps, whatever modifiers run on it   *)
(* and in whatever order, exactly the clauses it had: no exclusion         *)
(* predicate, no assignment to the deleted-at column and none to the actor *)
(* column is ever added to it.                                             *)
(***************************************************************************)
C1_UnscopedNothingAdded ==
  stmt.Unscoped =>
    /\ Len(ExclusionPredicates(stmt)) = 0
    /\ AssignmentsTo(stmt, field.DBName) = {}
    /\ AssignmentsTo(stmt, ActorColumn) = {}
    /\ stmt.Clauses = stmt0.Clauses

\* an unscoped statement with no rendered SQL after a delete and a query
C1_Witness ==
  /\ stmt.Unscoped
  /\ Len(stmt.SQL) = 0
  /\ calls = <<"delete", "query">>

(***************************************************************************)
(* C2. As stated: after two calls of the query modifier the statement has  *)
(* gained exactly one "not deleted" predicate and the second call changed  *)
(* nothing.  This fails for an unscoped statement, which gains none.       *)
(***************************************************************************)
C2_TwiceExactlyOne ==
  calls = <<"query", "query">> =>
    /\ stmt = pre
    /\ Len(ExclusionPredicates(stmt)) = Len(ExclusionPredicates(stmt0)) + 1

(***************************************************************************)
(* C2, amended. After two calls of the query modifier the second call has  *)
(* left the statement exactly as the first left it, and the statement has  *)
(* gained exactly one "not deleted" predicate if it is not unscoped and    *)
(* none if it is.                                                          *)
(***************************************************************************)
C2_TwiceIdempotent ==
  calls = <<"query", "query">> =>
    /\ stmt = pre
    /\ Len(ExclusionPredicates(stmt)) =
         Len(ExclusionPredicates(stmt0)) + (IF stmt.Unscoped THEN 0 ELSE 1)

\* two query calls on a scoped statement whose filter had an OR condition
C2_Witness ==
  /\ calls = <<"query", "query">>
  /\ ~stmt.Unscoped
  /\ \E i \in 1..Len(WhereExprs(stmt0)) : IsSingleOr(WhereExprs(stmt0)[i])
  /\ Len(ExclusionPredicates(stmt)) = 1

(***************************************************************************)
(* C3. When the query modifier injects the exclusion into a statement      *)
(* whose filter F holds a disjunction, the rendered filter is true under a *)
(* truth assignment to the conditions exactly when F is true and the "not  *)
(* deleted" predicate is true: (F) AND deleted_at = sentinel.              *)
(***************************************************************************)
C3_InjectionConjoins ==
  (QueryInjected /\ HasDisjunction(WhereBuild(WhereExprs(pre))))
  =>
  LET before == WhereBuild(WhereExprs(pre))
      after == WhereBuild(WhereExprs(stmt))
      notDeleted == BuildExpression(ExclusionPredicates(stmt)[1])[1]
  IN \A A \in [Conditions(after) -> BOOLEAN] :
       Holds(after, A) <=> (Holds(before, A) /\ A[notDeleted])

(***************************************************************************)
(* C4. A delete rewrite on a statement that is not unscoped and has no     *)
(* rendered SQL leaves an update behind: the SET clause assigns the host   *)
(* clock's reading to the deleted-at column, an UPDATE clause exists, and  *)
(* the statement's SQL is the rendering of the update clauses.             *)
(***************************************************************************)
C4_DeleteBecomesUpdate ==
  DeleteRewrote =>
    /\ \E i \in AssignmentsTo(stmt, field.DBName) :
         SetAssignments(stmt)[i].Value = nowFunc
    /\ HasClause(stmt, "UPDATE") /\ stmt.Clauses["UPDATE"].Expression # <<>>
    /\ Len(stmt.SQL) > 0
    /\ stmt.SQL[1] = "UPDATE"
    /\ stmt.SQL = BuildFrom(stmt, UpdateClauseNames, 1)

\* a delete rewrite that read the later clock value and rendered the update
C4_Witness ==
  /\ DeleteRewrote
  /\ nowFunc = MaxClock
  /\ Len(stmt.SQL) > 0
  /\ HasClause(stmt, "UPDATE")

(***************************************************************************)
(* C5. A delete rewrite on records whose primary keys are not all zero     *)
(* puts into the filter an IN predicate on the target table's id column    *)
(* whose values are exactly the non-zero keys of the records, each once.   *)
(***************************************************************************)
\* the identity of the records: their non-zero primary keys
KeySet(rv) == { rv.Elems[i] : i \in 1..Len(rv.Elems) } \ {0}

SeqRange(q) == { q[i] : i \in 1..Len(q) }

C5_DeleteScopesByKeys ==
  (DeleteRewrote /\ pre.Schema # <<>> /\ KeySet(pre.ReflectValue) # {})
  =>
  \E i \in 1..Len(INPredicates(stmt)) :
    LET p == INPredicates(stmt)[i] IN
    /\ p.Column = Column(pre.Table, "id")
    /\ SeqRange(p.Values) = KeySet(pre.ReflectValue)
    /\ Len(p.Values) = Cardinality(KeySet(pre.ReflectValue))

\* a delete of two records with different keys, under a filter with an OR
C5_Witness ==
  /\ DeleteRewrote
  /\ pre.Schema # <<>>
  /\ Cardinality(KeySet(pre.ReflectValue)) = 2
  /\ HasClause(pre, "WHERE")
  /\ Len(INPredicates(stmt)) >= 1

(***************************************************************************)
(* C6. A delete rewrite assigns the actor column if and only if the actor  *)
(* tag names a field of the schema and the context holds a value under the *)
(* actor key; the value assigned is that value; and the deleted-at column  *)
(* is assigned whether or not an actor is.                                 *)
(***************************************************************************)
ActorConfigured ==
  /\ field.TagSettings.ACTORFIELD # <<>>
  /\ LookUpField(field.TagSettings.ACTORFIELD[1]) # <<>>

C6_ActorAssignedIffPresent ==
  DeleteRewrote =>
    LET present == GORM_CTX_DELETED_BY \in DOMAIN pre.Context IN
    /\ (AssignmentsTo(stmt, ActorColumn) # {}) <=> (ActorConfigured /\ present)
    /\ \A i \in AssignmentsTo(stmt, ActorColumn) :
         SetAssignments(stmt)[i].Value = pre.Context[GORM_CTX_DELETED_BY]
    /\ Cardinality(AssignmentsTo(stmt, ActorColumn)) <= 1
    /\ Cardinality(AssignmentsTo(stmt, field.DBName)) = 1

\* a delete by "bob", whose context holds another key as well
C6_Witness ==
  /\ DeleteRewrote
  /\ \E i \in AssignmentsTo(stmt, ActorColumn) : SetAssignments(stmt)[i].Value = "bob"

(***************************************************************************)
(* C7. The sentinel of the injected exclusion predicate is the ZEROVALUE   *)
(* tag's own text when the tag is present and parses as a date, and NULL   *)
(* when the tag is absent or does not parse; a tag that does not parse     *)
(* does not keep the query rewrite from injecting the predicate.           *)
(***************************************************************************)
ExpectedSentinel ==
  IF field.TagSettings.ZEROVALUE # <<>> /\ NowParseOk(field.TagSettings.ZEROVALUE[1])
  THEN field.TagSettings.ZEROVALUE[1]
  ELSE NULL

C7_SentinelFromTag ==
  QueryInjected =>
    /\ HasClause(stmt, "soft_delete_enabled")
    /\ Len(ExclusionPredicates(stmt)) = 1
    /\ NullStringValue(ExclusionPredicates(stmt)[1].Value) = ExpectedSentinel

\* an injection under a tag that is no date
C7_Witness ==
  /\ QueryInjected
  /\ field.TagSettings.ZEROVALUE = <<"not-a-date">>
  /\ Len(ExclusionPredicates(stmt)) = 1
  /\ NullStringValue(ExclusionPredicates(stmt)[1].Value) = NULL

(***************************************************************************)
(* C8. As stated: encoding a wrapper to text and decoding the text gives   *)
(* the wrapper back (the same Valid, and when Valid the same instant), and *)
(* a wrapper that is not Valid encodes as null.  This fails for a Valid    *)
(* wrapper whose year is past 9999, which has no text form.                *)
(***************************************************************************)
SameWrapper(a, b) == a.Valid = b.Valid /\ (a.Valid => TimeEqual(a.Time, b.Time))

C8_RoundTrip ==
  out.op = "RoundTrip" =>
    /\ out.merr = <<>>
    /\ out.err = <<>>
    /\ SameWrapper(out.y, out.x)
    /\ (~out.x.Valid => out.bytes = <<"null">>)

(***************************************************************************)
(* C8, amended. A wrapper that is not Valid encodes as null, and decoding  *)
(* that gives a wrapper that is not Valid; a Valid wrapper whose year is   *)
(* within 0..9999 encodes without error and decodes to a Valid wrapper of  *)
(* the same instant; a Valid wrapper of a later year does not encode: the  *)
(* encoder returns an error.                                               *)
(***************************************************************************)
C8_RoundTripEncodable ==
  out.op = "RoundTrip" =>
    /\ ~out.x.Valid =>
         /\ out.merr = <<>> /\ out.err = <<>>
         /\ out.bytes = <<"null">>
         /\ ~out.y.Valid
    /\ (out.x.Valid /\ out.x.Time.Year \in 0..9999) =>
         /\ out.merr = <<>> /\ out.err = <<>>
         /\ out.y.Valid
         /\ TimeEqual(out.y.Time, out.x.Time)
    /\ (out.x.Valid /\ out.x.Time.Year \notin 0..9999) => out.merr # <<>>

\* a Valid wrapper with a monotonic reading, decoded to the same instant
C8_Witness ==
  /\ out.op = "RoundTrip"
  /\ out.x.Valid /\ out.x.Time = Time(2000, TRUE)
  /\ out.y.Valid /\ out.y.Time = Time(2000, FALSE)

(***************************************************************************)
(* C9. Value returns nil exactly when the wrapper is not Valid, returns    *)
(* the wrapped time when it is, and never returns an error.                *)
(***************************************************************************)
C9_ValueNilIffNotValid ==
  out.op = "Value" =>
    /\ out.err = <<>>
    /\ (out.value = <<>>) <=> ~out.x.Valid
    /\ out.x.Valid => out.value = <<out.x.Time>>

\* Value of a Valid wrapper
C9_Witness ==
  /\ out.op = "Value"
  /\ out.x.Valid
  /\ out.value = <<out.x.Time>>

(***************************************************************************)
(* C10. When UnmarshalJSON returns an error, the wrapper is as it was      *)
(* before the call: Valid is what it was, and a Valid wrapper holds the    *)
(* instant it held.                                                        *)
(***************************************************************************)
C10_FailedUnmarshalKeepsState ==
  (out.op = "UnmarshalJSON" /\ out.err # <<>>) =>
    /\ out.y.Valid = out.x.Valid
    /\ out.x.Valid => TimeEqual(out.y.Time, out.x.Time)

(***************************************************************************)
(* C11. An update rewrite or a delete rewrite that runs on a statement     *)
(* with rendered SQL changes nothing: the clauses, the marker among them,  *)
(* the record, the errors and the SQL are what they were.                  *)
(***************************************************************************)
C11_RenderedIsSkipped ==
  (LastCall \in {"update", "delete"} /\ Len(pre.SQL) > 0) =>
    /\ stmt.Clauses = pre.Clauses
    /\ stmt.Record = pre.Record
    /\ stmt = pre

\* an update on a scoped statement the host had rendered, with no marker yet
C11_Witness ==
  /\ LastCall = "update"
  /\ Len(pre.SQL) > 0
  /\ ~pre.Unscoped
  /\ ~HasClause(pre, "soft_delete_enabled")
  /\ stmt = pre

(***************************************************************************)
(* C12. The second of two delete rewrites in a row changes nothing, and    *)
(* the statement holds what one rewrite gives: at most one assignment to   *)
(* the deleted-at column, at most one to the actor column, at most one     *)
(* "not deleted" predicate, at most the record's and the model's IN        *)
(* predicates, and the SQL the first rewrite rendered.                     *)
(***************************************************************************)
C12_SecondDeleteAddsNothing ==
  calls = <<"delete", "delete">> =>
    /\ stmt = pre
    /\ stmt.SQL = pre.SQL
    /\ Cardinality(AssignmentsTo(stmt, field.DBName)) <= 1
    /\ Cardinality(AssignmentsTo(stmt, ActorColumn)) <= 1
    /\ Len(ExclusionPredicates(stmt)) <= 1
    /\ Len(INPredicates(stmt)) <= 2
    /\ (~stmt0.Unscoped /\ Len(stmt0.SQL) = 0) =>
         /\ Len(stmt.SQL) > 0
         /\ stmt.SQL = BuildFrom(stmt, UpdateClauseNames, 1)

\* two delete rewrites of a scoped statement that had no rendered SQL, the
\* first of which scoped it by a key and assigned an actor
C12_Witness ==
  /\ calls = <<"delete", "delete">>
  /\ ~stmt0.Unscoped /\ Len(stmt0.SQL) = 0
  /\ Len(stmt.SQL) > 0
  /\ Len(INPredicates(stmt)) >= 1
  /\ Cardinality(AssignmentsTo(stmt, ActorColumn)) = 1
  /\ Len(ExclusionPredicates(stmt)) = 1

(***************************************************************************)
(* C13. A statement that a delete rewrite has rendered holds exactly one   *)
(* "not deleted" predicate; the rendered SQL contains it; the rendered     *)
(* filter is false under every truth assignment that makes the predicate   *)
(* false, so the update matches no deleted row; and when the delete        *)
(* rewrite itself injected the predicate, it stands after the user's       *)
(* filter and the IN predicates, and the SET clause is there.              *)
(***************************************************************************)
SeqHas(toks, t) == \E i \in 1..Len(toks) : toks[i] = t

C13_DeleteExcludesDeleted ==
  DeleteRewrote =>
    /\ Len(ExclusionPredicates(stmt)) = 1
    /\ LET after == WhereBuild(WhereExprs(stmt))
           notDeleted == BuildExpression(ExclusionPredicates(stmt)[1])[1]
       IN /\ SeqHas(stmt.SQL, notDeleted)
          /\ \A A \in [Conditions(after) -> BOOLEAN] :
               Holds(after, A) => A[notDeleted]
    /\ ~HasClause(pre, "soft_delete_enabled") =>
         /\ IsExclusion(WhereExprs(stmt)[Len(WhereExprs(stmt))])
         /\ Len(SetAssignments(stmt)) >= 1
         /\ Len(INPredicates(stmt)) >= Len(INPredicates(pre))

\* a delete rewrite that injected the predicate itself, into a filter with
\* an OR condition, after it had added the IN predicate
C13_Witness ==
  /\ DeleteRewrote
  /\ ~HasClause(pre, "soft_delete_enabled")
  /\ \E i \in 1..Len(WhereExprs(pre)) : IsSingleOr(WhereExprs(pre)[i])
  /\ Len(INPredicates(stmt)) = 1
  /\ Len(ExclusionPredicates(stmt)) = 1
  /\ SeqHas(stmt.SQL, BuildExpression(ExclusionPredicates(stmt)[1])[1])

(***************************************************************************)
(* C14. As stated: a delete rewrite on a statement with a schema, whose    *)
(* model is present and is not the destination and has a non-zero primary  *)
(* key, adds an IN predicate over the model's keys, after the one over the *)
(* record's keys if the record has any.  This fails when the record is a   *)
(* struct passed by value (not addressable).                               *)
(***************************************************************************)
\* stmt.Dest != stmt.Model && stmt.Model != nil
ModelDistinct(s) == s.Model # <<>> /\ s.Model[1].ptr # s.Dest

ModelKeySet(s) ==
  IF s.Model = <<>> THEN {}
  ELSE { s.Model[1].Elems[i] : i \in 1..Len(s.Model[1].Elems) } \ {0}

C15_UserPredicatesKept ==
  QueryInjected =>
    LET F == WhereExprs(pre)
        G == WhereExprs(stmt)
        front == SubSeq(G, 1, Len(G) - 1)
    IN /\ Len(G) = Len(front) + 1
       /\ IsExclusion(G[Len(G)])
       /\ \/ front = F
          \/ front = <<AndConditions(F)>>
       /\ Len(ExclusionPredicates(stmt)) = Len(ExclusionPredicates(pre)) + 1
       /\ Conditions(WhereBuild(F)) \subseteq Conditions(WhereBuild(G))

\* an injection into a filter of two different expressions, an OR condition
\* first, which are now the members of an AND group
C15_Witness ==
  /\ QueryInjected
  /\ Len(WhereExprs(pre)) = 2
  /\ IsSingleOr(WhereExprs(pre)[1])
  /\ WhereExprs(pre)[2] # WhereExprs(pre)[1]
  /\ WhereExprs(stmt)[1] = AndConditions(WhereExprs(pre))

(***************************************************************************)
(* C16. As stated: the query modifier that injects the exclusion puts the  *)
(* filter's expressions into one AND group exactly when exactly one of the *)
(* filter's top-level expressions is an OR group.  This fails for a filter *)
(* with two OR groups of one condition each, which is wrapped, and for a   *)
(* filter whose one OR group has two conditions, which is not.             *)
(***************************************************************************)
TopLevelOrGroups(F) == { i \in 1..Len(F) : F[i].kind = "OrConditions" }

\* the filter of the statement is the AND group of the filter it had,
\* followed by what was injected
Wrapped ==
  /\ Len(WhereExprs(pre)) >= 1
  /\ Len(WhereExprs(stmt)) = 2
  /\ WhereExprs(stmt)[1] = AndConditions(WhereExprs(pre))

C16_WrapIffOneOrGroup ==
  QueryInjected =>
    (Wrapped <=> Cardinality(TopLevelOrGroups(WhereExprs(pre))) = 1)

(***************************************************************************)
(* C16, amended. The query modifier that injects the exclusion puts the    *)
(* filter's expressions into one AND group exactly when at least one of    *)
(* the filter's top-level expressions is an OR group of exactly one        *)
(* condition, however many OR groups there are; otherwise the expressions  *)
(* stay at the top level as they were.                                     *)
(***************************************************************************)
C16_WrapIffSingleConditionOr ==
  QueryInjected =>
    LET F == WhereExprs(pre)
        G == WhereExprs(stmt)
    IN /\ Wrapped <=> \E i \in 1..Len(F) : IsSingleOr(F[i])
       /\ ~Wrapped => SubSeq(G, 1, Len(G) - 1) = F

\* two OR groups of one condition each, wrapped together
C16_Witness ==
  /\ QueryInjected
  /\ Cardinality(TopLevelOrGroups(WhereExprs(pre))) = 2
  /\ \A i \in 1..Len(WhereExprs(pre)) : IsSingleOr(WhereExprs(pre)[i])
  /\ Wrapped

(***************************************************************************)
(* C17. As stated: after a delete rewrite the in-memory record holds, for  *)
(* the deleted-at column, the value the SET clause assigns to it, which is *)
(* the one reading of the host clock; and when the SET clause assigns the  *)
(* actor column, the record holds that value for the actor column.  This   *)
(* fails when the statement has no schema and when the record is a struct  *)
(* passed by value: then nothing is set on the record.                     *)
(***************************************************************************)
\* the value the SET clause assigns to a column it assigns once
AssignedValue(s, name) ==
  SetAssignments(s)[CHOOSE i \in AssignmentsTo(s, name) : TRUE].Value

Marked(s, name) == name \in DOMAIN s.Record

C17_RecordMatchesAssignments ==
  DeleteRewrote =>
    /\ Cardinality(AssignmentsTo(stmt, field.DBName)) = 1
    /\ AssignedValue(stmt, field.DBName) = nowFunc
    /\ Marked(stmt, field.DBName)
    /\ stmt.Record[field.DBName] = AssignedValue(stmt, field.DBName)
    /\ AssignmentsTo(stmt, ActorColumn) # {} =>
         /\ Marked(stmt, ActorColumn)
         /\ stmt.Record[ActorColumn] = AssignedValue(stmt, ActorColumn)

(***************************************************************************)
(* C17, amended. After a delete rewrite the SET clause assigns the one     *)
(* reading of the host clock to the deleted-at column.  When the statement *)
(* has a schema and the record is a slice or an addressable struct, the    *)
(* record holds that same value for the deleted-at column, and holds the   *)
(* assigned actor for the actor column exactly when the SET clause assigns *)
(* one.  Otherwise the record is left as it was and the statement carries  *)
(* an error.                                                               *)
(***************************************************************************)
Settable(s) ==
  /\ s.Schema # <<>>
  /\ s.ReflectValue.Kind = "Struct" => s.ReflectValue.CanAddr

C17_RecordMatchesWhenSettable ==
  DeleteRewrote =>
    /\ Cardinality(AssignmentsTo(stmt, field.DBName)) = 1
    /\ AssignedValue(stmt, field.DBName) = nowFunc
    /\ Settable(pre) =>
         /\ Marked(stmt, field.DBName)
         /\ stmt.Record[field.DBName] = AssignedValue(stmt, field.DBName)
         /\ Marked(stmt, ActorColumn) <=> AssignmentsTo(stmt, ActorColumn) # {}
         /\ Marked(stmt, ActorColumn) =>
              stmt.Record[ActorColumn] = AssignedValue(stmt, ActorColumn)
         /\ stmt.Error = pre.Error
    /\ ~Settable(pre) =>
         /\ stmt.Record = pre.Record
         /\ stmt.Error # {}

\* a delete by "bob" at the later clock reading, both set on the record
C17_Witness ==
  /\ DeleteRewrote
  /\ nowFunc = MaxClock
  /\ Marked(stmt, field.DBName) /\ stmt.Record[field.DBName] = MaxClock
  /\ Marked(stmt, ActorColumn) /\ stmt.Record[ActorColumn] = "bob"
  /\ AssignedValue(stmt, ActorColumn) = "bob"

(***************************************************************************)
(* C18. Of two statements rewritten in any interleaving, a rewrite of one  *)
(* leaves the other as it was, its clauses, its marker and its SQL, and    *)
(* each statement is what its own rewrites, run alone on the statement as  *)
(* it was built, make of it.                                               *)
(***************************************************************************)
RECURSIVE Replay(_, _, _)
Replay(s, log, i) ==
  IF i > Len(log) THEN s ELSE Replay(Applied(s, log[i]), log, i + 1)

C19_OnePredicateIffMarker ==
  /\ Len(ExclusionPredicates(stmt)) <= 1
  /\ Len(ExclusionPredicates(stmt)) = 1 <=> HasClause(stmt, "soft_delete_enabled")

\* an update rewrite set the marker and a delete rewrite then rendered the
\* statement without a second predicate
C19_Witness ==
  /\ calls = <<"update", "delete">>
  /\ DeleteRewrote
  /\ HasClause(pre, "soft_delete_enabled")
  /\ Len(ExclusionPredicates(pre)) = 1
  /\ Len(ExclusionPredicates(stmt)) = 1

(***************************************************************************)
(* C20. As stated: a delete rewrite that passes its guard on a statement   *)
(* without a schema, or whose record has no non-zero primary key, adds no  *)
(* IN predicate, and still assigns the clock's reading to the deleted-at   *)
(* column, still leaves one "not deleted" predicate in the filter and      *)
(* still renders the update, whose filter holds the user's conditions and  *)
(* that predicate and nothing else.  This fails when the record has no key *)
(* but a distinct model has one: the model's keys are then put in an IN.   *)
(***************************************************************************)
NoKeysOutcome ==
  /\ Len(INPredicates(stmt)) = Len(INPredicates(pre))
  /\ Cardinality(AssignmentsTo(stmt, field.DBName)) = 1
  /\ AssignedValue(stmt, field.DBName) = nowFunc
  /\ Len(ExclusionPredicates(stmt)) = 1
  /\ HasClause(stmt, "soft_delete_enabled")
  /\ Len(stmt.SQL) > 0
  /\ stmt.SQL = BuildFrom(stmt, UpdateClauseNames, 1)
  /\ Conditions(WhereBuild(WhereExprs(stmt))) =
       Conditions(WhereBuild(WhereExprs(pre)))
       \cup { BuildExpression(ExclusionPredicates(stmt)[1])[1] }

C20_NoKeysNoIN ==
  (DeleteRewrote /\ (pre.Schema = <<>> \/ KeySet(pre.ReflectValue) = {}))
  => NoKeysOutcome

(***************************************************************************)
(* C20, amended. The same, for a statement without a schema, or whose      *)
(* record has no non-zero primary key and whose model is absent, is the    *)
(* destination, has no non-zero key either, or goes with a record that is  *)
(* not addressable.                                                        *)
(***************************************************************************)
C20_NoKeysAnywhereNoIN ==
  (/\ DeleteRewrote
   /\ \/ pre.Schema = <<>>
      \/ /\ KeySet(pre.ReflectValue) = {}
         /\ ~(pre.ReflectValue.CanAddr /\ ModelDistinct(pre) /\ ModelKeySet(pre) # {}))
  => NoKeysOutcome

\* a delete, under a filter, of a record with a key but without a schema
C20_Witness ==
  /\ DeleteRewrote
  /\ pre.Schema = <<>>
  /\ KeySet(pre.ReflectValue) # {}
  /\ Len(WhereExprs(pre)) = 2
  /\ NoKeysOutcome


=============================================================================
